---- MODULE Spec2Model ----
(***************************************************************************)
(* Model of onionshare_gui/tab_widget.py: the TabWidget that keeps a       *)
(* registry of Tab objects next to the Qt tab strip and writes the order   *)
(* of the persistent tabs to the settings store.                           *)
(*                                                                         *)
(* Every Qt event handler runs to completion on the GUI thread, so each    *)
(* handler is one action.  Handlers are written as operators on a record  *)
(* s of the program state, so that a handler calling another one           *)
(* (close_tab -> new_tab_clicked -> add_tab -> change_persistent ->        *)
(* save_persistent_tabs) is plain composition.                             *)
(* Qt indexes tabs from 0; strip is a TLA+ sequence, so the tab at Qt      *)
(* index i is strip[i + 1].                                                *)
(* Tab and ModeSettings are collaborators defined outside tab_widget.py:   *)
(* a Tab is its settings (id, persistent flag) and the answer it gives to  *)
(* close_tab(); a ModeSettings file is an entry of disk.  A handler that   *)
(* raises leaves err set; the next handler starts from the state it left.  *)
(* Every tab header is TabWidth wide and the tab bar is not scrolled, so   *)
(* the bar's sizeHint().width() is the sum of the header widths.           *)
(***************************************************************************)
EXTENDS Integers, Sequences, FiniteSets, TLC

VARIABLES
    tabs,             \* self.tabs: tab id -> Tab object (an object is named by the id it was built with)
    current_tab_id,   \* self.current_tab_id
    strip,            \* the QTabWidget pages in display order: widget, text, icon, left-side button
    currentIndex,     \* QTabWidget.currentIndex(), -1 when there is no tab
    settings,         \* tab.settings of every Tab object built so far: id and ("persistent","enabled")
    disk,             \* settings ids that have a mode-settings file on disk
    persistent_tabs,  \* common.settings "persistent_tabs", as last saved
    err,              \* exception raised by the last handler, "none" when it returned
    mode,             \* tab.get_mode() of every Tab object: "None" or the mode's server_status.status
    result,           \* what the last are_tabs_active() returned
    width,            \* self.width()
    new_tab_button_pos, \* self.new_tab_button.pos()
    button_moved,     \* history: the last handler called move_new_tab_button
    allocated,        \* history: the tab ids handed to Tab(...) so far, in order
    last,             \* history: the last handler that ran and the case it was in
    arg,              \* history: the index the last close_tab was called with, else -1
    original,         \* history: the persistent_tabs list the startup load began with
    to_load           \* the ids of that list the startup load has not loaded yet

vars == <<tabs, current_tab_id, strip, currentIndex, settings, disk,
          persistent_tabs, err, mode, result, width, new_tab_button_pos,
          button_moved, allocated, last, arg, original, to_load>>

\* Bounds of the model
MaxTabs == 2      \* add_tab is not taken once current_tab_id reaches MaxTabs
TabWidth == 100   \* tabRect(i).width() of every tab header

\* move_new_tab_button: "move the button to the left of the scroll buttons"
ScrollButtonsOffset == 61

\* self.width(): as wide as one, two or three tab headers
Widths == {TabWidth, 2 * TabWidth, 3 * TabWidth}
DefaultWidth == 2 * TabWidth

\* mode.server_status.status
STATUS_STOPPED == "STATUS_STOPPED"
STATUS_WORKING == "STATUS_WORKING"
STATUS_STARTED == "STATUS_STARTED"
Statuses == {STATUS_STOPPED, STATUS_WORKING, STATUS_STARTED}

\* Settings ids: <<"saved", k>> was saved by an earlier run of the program,
\* <<"new", tab_id>> is the id of the settings made for a new tab
SavedIds == {<<"saved", "a">>}
Titles == {"title"}
Icons == {"icon"}
Booleans == {TRUE, FALSE}

\* mode_settings=None of add_tab
None == [id |-> <<"none", "">>, persistent |-> FALSE]

Range(f) == {f[x] : x \in DOMAIN f}

\* Sequences over S without repetition
RECURSIVE Perms(_)
Perms(S) ==
    IF S = {} THEN {<<>>}
    ELSE UNION {{<<x>> \o p : p \in Perms(S \ {x})} : x \in S}

SavedLists == UNION {Perms(T) : T \in SUBSET SavedIds}

\* The lists a startup may find stored
StartupIds == {<<"saved", "a">>, <<"saved", "b">>, <<"saved", "c">>, <<"saved", "d">>}
StartupLists == UNION {Perms(T) : T \in SUBSET StartupIds}

\* The program state as one record
S ==
    [tabs |-> tabs, current_tab_id |-> current_tab_id, strip |-> strip,
     currentIndex |-> currentIndex, settings |-> settings, disk |-> disk,
     persistent_tabs |-> persistent_tabs, err |-> "none",
     mode |-> mode, result |-> result, width |-> width,
     new_tab_button_pos |-> new_tab_button_pos,
     button_moved |-> FALSE,
     allocated |-> allocated]

----------------------------------------------------------------------------
(* Qt: QTabWidget *)

count(s) == Len(s.strip)

widget(s, index) == s.strip[index + 1].widget

\* QTabWidget.indexOf: -1 when the widget is not a page
indexOf(s, w) ==
    IF \E i \in 1 .. Len(s.strip) : s.strip[i].widget = w
    THEN (CHOOSE i \in 1 .. Len(s.strip) : s.strip[i].widget = w) - 1
    ELSE -1

\* tabBar().tabRect(i).width()
tabRect_width(s, i) == TabWidth

\* The sum of move_new_tab_button over the headers i .. count() - 1
RECURSIVE tabs_width(_, _)
tabs_width(s, i) ==
    IF i >= count(s) THEN 0 ELSE tabRect_width(s, i) + tabs_width(s, i + 1)

\* tabBar().sizeHint().width(): all headers side by side
sizeHint_width(s) == tabs_width(s, 0)

\* The button goes left of the scroll buttons as soon as the tabs fill the width
move_new_tab_button_ge(s) ==
    [s EXCEPT !.new_tab_button_pos.x =
                IF tabs_width(s, 0) >= s.width
                THEN s.width - ScrollButtonsOffset ELSE sizeHint_width(s),
              !.button_moved = TRUE]

move_new_tab_button(s) ==
    [s EXCEPT !.new_tab_button_pos.x =
                IF tabs_width(s, 0) > s.width
                THEN s.width - ScrollButtonsOffset ELSE sizeHint_width(s),
              !.button_moved = TRUE]

\* A tab bar that keeps its layout changes to itself
tabLayoutChange_silent(s) == s

\* TabBar.tabLayoutChange emits move_new_tab_button, connected to the slot
tabLayoutChange(s) == move_new_tab_button(s)

\* resizeEvent: the base class handles the event, then the button is moved
resizeEvent(s, w) == move_new_tab_button([s EXCEPT !.width = w])

\* A tab widget that puts a new page in front of the others
addTab_front(s, w, text) ==
    tabLayoutChange(
      [s EXCEPT !.strip = <<[widget |-> w, text |-> text,
                             icon |-> "", button |-> "none"]>> \o @,
                !.currentIndex = IF @ = -1 THEN 0 ELSE @ + 1])

\* QTabWidget.addTab: the page goes to the end; the first page becomes current
addTab(s, w, text) ==
    tabLayoutChange(
      [s EXCEPT !.strip = Append(@, [widget |-> w, text |-> text,
                                     icon |-> "", button |-> "none"]),
                !.currentIndex = IF @ = -1 THEN 0 ELSE @])

\* A tab widget that keeps the page it shows
setCurrentIndex_skip(s, index) == s

setCurrentIndex(s, index) ==
    IF index >= 0 /\ index < count(s) THEN [s EXCEPT !.currentIndex = index] ELSE s

\* setTabText, setTabIcon, tabBar().setTabButton: ignored for an index out of
\* range; the tab bar lays its tabs out again
setTabText(s, index, text) ==
    IF index >= 0 /\ index < count(s)
    THEN tabLayoutChange([s EXCEPT !.strip[index + 1].text = text]) ELSE s

setTabIcon(s, index, icon) ==
    IF index >= 0 /\ index < count(s)
    THEN tabLayoutChange([s EXCEPT !.strip[index + 1].icon = icon]) ELSE s

setTabButton(s, index, w) ==
    IF index >= 0 /\ index < count(s)
    THEN tabLayoutChange([s EXCEPT !.strip[index + 1].button = w]) ELSE s

\* QTabWidget.removeTab: the page is taken out, the pages after it move up;
\* when the current page goes the page to its right becomes current
removeTab(s, index) ==
    IF index < 0 \/ index >= count(s) THEN s
    ELSE
      LET n == count(s)
          rest == [i \in 1 .. n - 1 |->
                     IF i <= index THEN s.strip[i] ELSE s.strip[i + 1]]
          cur == IF s.currentIndex > index THEN s.currentIndex - 1
                 ELSE IF s.currentIndex < index THEN s.currentIndex
                 ELSE IF index < n - 1 THEN index ELSE index - 1
      IN tabLayoutChange([s EXCEPT !.strip = rest, !.currentIndex = cur])

\* QTabBar.moveTab (setMovable(True)): the page at from goes to position to,
\* the current page stays the current page
moveTab(s, from, to) ==
    LET n == count(s)
        without == [i \in 1 .. n - 1 |->
                      IF i <= from THEN s.strip[i] ELSE s.strip[i + 1]]
        moved == [i \in 1 .. n |->
                    IF i < to + 1 THEN without[i]
                    ELSE IF i = to + 1 THEN s.strip[from + 1]
                    ELSE without[i - 1]]
        curw == s.strip[s.currentIndex + 1].widget
        t == [s EXCEPT !.strip = moved]
    IN tabLayoutChange([t EXCEPT !.currentIndex = indexOf(t, curw)])

----------------------------------------------------------------------------
(* Collaborators: Tab and ModeSettings *)

\* A new ModeSettings() gets an id no other settings have
fresh_settings_id(tab_id) == <<"new", tab_id>>

\* ModeSettings(common, id=mode_settings_id): the saved settings of that id
ModeSettings(s, mode_settings_id) ==
    [id |-> mode_settings_id, persistent |-> mode_settings_id \in s.disk]

\* Tab.init(mode_settings): the tab takes the settings it is given and opens
\* their mode with the server stopped, or takes new ones and has no mode yet
Tab_init(s, tab_id, mode_settings) ==
    LET ms == IF mode_settings = None
              THEN [id |-> fresh_settings_id(tab_id), persistent |-> FALSE]
              ELSE mode_settings
    IN [s EXCEPT !.settings =
          [k \in DOMAIN s.settings \cup {tab_id} |->
             IF k = tab_id THEN ms ELSE s.settings[k]],
                 !.mode =
          [k \in DOMAIN s.mode \cup {tab_id} |->
             IF k = tab_id
             THEN (IF mode_settings = None THEN "None" ELSE STATUS_STOPPED)
             ELSE s.mode[k]]]

\* tab.settings.get("persistent", "enabled")
settings_get_persistent(s, tab) == s.settings[tab].persistent

\* tab.settings.delete(): the settings file is removed
settings_delete(s, tab) == [s EXCEPT !.disk = @ \ {s.settings[tab].id}]

\* The persistent checkbox of a tab: the tab stores the flag (its settings
\* are written to disk while the flag is on)
Tab_set_persistent(s, tab, flag) ==
    [s EXCEPT !.settings[tab].persistent = flag,
              !.disk = IF flag THEN @ \cup {s.settings[tab].id} ELSE @]

----------------------------------------------------------------------------
(* TabWidget *)

\* The loop of save_persistent_tabs over the pages index .. count() - 1
RECURSIVE collect_persistent(_, _)
collect_persistent(s, index) ==
    IF index >= count(s) THEN <<>>
    ELSE LET tab == widget(s, index)
         IN (IF settings_get_persistent(s, tab)
             THEN <<s.settings[tab].id>> ELSE <<>>)
            \o collect_persistent(s, index + 1)

\* A save that keeps what was stored and adds to it
save_persistent_tabs_append(s) ==
    [s EXCEPT !.persistent_tabs = @ \o collect_persistent(s, 0)]

\* A save that lists every tab, persistent or not
save_persistent_tabs_all(s) ==
    [s EXCEPT !.persistent_tabs =
        [i \in 1 .. count(s) |-> s.settings[widget(s, i - 1)].id]]

save_persistent_tabs(s) ==
    [s EXCEPT !.persistent_tabs = collect_persistent(s, 0)]

change_title(s, tab_id, title) ==
    IF tab_id \notin DOMAIN s.tabs THEN [s EXCEPT !.err = "KeyError"]
    ELSE setTabText(s, indexOf(s, s.tabs[tab_id]), title)

\* A lookup of the tab that gives up quietly instead of raising
change_icon_quiet(s, tab_id, icon_path) ==
    IF tab_id \notin DOMAIN s.tabs THEN s
    ELSE setTabIcon(s, indexOf(s, s.tabs[tab_id]), icon_path)

change_icon(s, tab_id, icon_path) ==
    IF tab_id \notin DOMAIN s.tabs THEN [s EXCEPT !.err = "KeyError"]
    ELSE setTabIcon(s, indexOf(s, s.tabs[tab_id]), icon_path)

change_persistent(s, tab_id, is_persistent) ==
    IF tab_id \notin DOMAIN s.tabs THEN [s EXCEPT !.err = "KeyError"]
    ELSE LET index == indexOf(s, s.tabs[tab_id])
             s1 == IF is_persistent
                   THEN setTabButton(s, index, "persistent_image_label")
                   ELSE setTabButton(s, index, "invisible_widget")
         IN save_persistent_tabs(s1)

\* An add_tab that numbers the new tab by the size of the registry
add_tab_by_size(s, mode_settings) ==
    LET tab == Cardinality(DOMAIN s.tabs)
        s1 == [s EXCEPT !.tabs = [k \in DOMAIN s.tabs \cup {tab} |-> IF k = tab THEN tab ELSE s.tabs[k]],
                        !.current_tab_id = @ + 1,
                        !.allocated = Append(@, tab)]
        s2 == addTab(s1, tab, "gui_new_tab")
        s3 == setCurrentIndex(s2, count(s2) - 1)
        s4 == Tab_init(s3, tab, mode_settings)
    IN change_persistent(s4, tab, settings_get_persistent(s4, tab))

add_tab(s, mode_settings) ==
    LET tab == s.current_tab_id
        s1 == [s EXCEPT !.tabs = [k \in DOMAIN s.tabs \cup {tab} |-> IF k = tab THEN tab ELSE s.tabs[k]],
                        !.current_tab_id = @ + 1,
                        !.allocated = Append(@, tab)]
        s2 == addTab(s1, tab, "gui_new_tab")
        s3 == setCurrentIndex(s2, count(s2) - 1)
        s4 == Tab_init(s3, tab, mode_settings)
    IN change_persistent(s4, tab, settings_get_persistent(s4, tab))

new_tab_clicked(s) == add_tab(s, None)

load_tab(s, mode_settings_id) == add_tab(s, ModeSettings(s, mode_settings_id))

\* A close that deletes the settings file whatever the persistent flag says
delete_settings_always(s, tab) == settings_delete(s, tab)

\* close_tab: "If the tab is persistent, delete the settings file from disk"
delete_settings_if_persistent(s, tab) ==
    IF settings_get_persistent(s, tab) THEN settings_delete(s, tab) ELSE s

\* A close that leaves the registry entry behind
del_tabs_skip(s, tab_id) == s

\* close_tab: del self.tabs[tab.tab_id]
del_tabs(s, tab_id) ==
    IF tab_id \notin DOMAIN s.tabs THEN [s EXCEPT !.err = "KeyError"]
    ELSE [s EXCEPT !.tabs = [k \in DOMAIN s.tabs \ {tab_id} |-> s.tabs[k]]]

\* A close that leaves the strip empty
open_new_if_last_skip(s) == s

\* close_tab: "If the last tab is closed, open a new one"
open_new_if_last(s) ==
    IF count(s) = 0 THEN new_tab_clicked(s) ELSE s

\* A close that does not save the order list at its end
close_tab_no_save(s, index, agree) ==
    LET tab == widget(s, index)
    IN IF agree
       THEN LET s1 == delete_settings_if_persistent(s, tab)
                s2 == removeTab(s1, index)
                s3 == del_tabs(s2, tab)
            IN IF s3.err # "none" THEN s3
               ELSE open_new_if_last(s3)
       ELSE s

\* A close that takes the index for the key of the registry entry
close_tab_by_key(s, index, agree) ==
    LET tab == widget(s, index)
    IN IF agree
       THEN LET s1 == delete_settings_if_persistent(s, tab)
                s2 == removeTab(s1, index)
                s3 == del_tabs(s2, index)
            IN IF s3.err # "none" THEN s3
               ELSE save_persistent_tabs(open_new_if_last(s3))
       ELSE save_persistent_tabs(s)

\* A close that deletes the settings before the tab is asked
close_tab_delete_first(s, index, agree) ==
    LET tab == widget(s, index)
        s0 == delete_settings_if_persistent(s, tab)
    IN IF agree
       THEN LET s2 == removeTab(s0, index)
                s3 == del_tabs(s2, tab)
            IN IF s3.err # "none" THEN s3
               ELSE save_persistent_tabs(open_new_if_last(s3))
       ELSE save_persistent_tabs(s0)

\* agree is what tab.close_tab() answers
close_tab(s, index, agree) ==
    LET tab == widget(s, index)
    IN IF agree
       THEN LET s1 == delete_settings_if_persistent(s, tab)
                s2 == removeTab(s1, index)
                s3 == del_tabs(s2, tab)
            IN IF s3.err # "none" THEN s3
               ELSE save_persistent_tabs(open_new_if_last(s3))
       ELSE save_persistent_tabs(s)

\* changeEvent: the base class handles the event, then the order is saved
changeEvent(s) == save_persistent_tabs(s)

\* tab.get_mode(): "None" while the tab has no mode, else the status of the
\* mode's server
get_mode(s, tab) == s.mode[tab]

\* The keys of self.tabs in the order the loop meets them: a dict keeps the
\* order of insertion, and add_tab inserts growing ids
RECURSIVE keys_in_order(_)
keys_in_order(K) ==
    IF K = {} THEN << >>
    ELSE LET k == CHOOSE x \in K : \A y \in K : x <= y
         IN <<k>> \o keys_in_order(K \ {k})

\* A loop that answers after the first tab it looks at
any_tab_active_first(s, keys) ==
    IF keys = << >> THEN FALSE
    ELSE LET m == get_mode(s, s.tabs[Head(keys)])
         IN m # "None" /\ m # STATUS_STOPPED

\* The loop of are_tabs_active over the keys still to visit
RECURSIVE any_tab_active(_, _)
any_tab_active(s, keys) ==
    IF keys = << >> THEN FALSE
    ELSE LET m == get_mode(s, s.tabs[Head(keys)])
         IN IF m # "None" /\ m # STATUS_STOPPED THEN TRUE
            ELSE any_tab_active(s, Tail(keys))

are_tabs_active(s) ==
    [s EXCEPT !.result = any_tab_active(s, keys_in_order(DOMAIN s.tabs))]

----------------------------------------------------------------------------
(* The state machine *)


\* Tab objects that the registry or the strip still refers to
Live(s) == Range(s.tabs) \cup {s.strip[i].widget : i \in 1 .. Len(s.strip)}

SetProgram(s, l, a) ==
    /\ tabs' = s.tabs
    /\ current_tab_id' = s.current_tab_id
    /\ strip' = s.strip
    /\ currentIndex' = s.currentIndex
    /\ settings' = [k \in DOMAIN s.settings \cap Live(s) |-> s.settings[k]]
    /\ disk' = s.disk
    /\ persistent_tabs' = s.persistent_tabs
    /\ err' = s.err
    /\ mode' = [k \in DOMAIN s.mode \cap Live(s) |-> s.mode[k]]
    /\ result' = s.result
    /\ width' = s.width
    /\ new_tab_button_pos' = s.new_tab_button_pos
    /\ button_moved' = s.button_moved
    /\ allocated' = s.allocated
    /\ last' = l
    /\ arg' = a

SetAll(s, l, a) == SetProgram(s, l, a) /\ UNCHANGED <<original, to_load>>

Set(s, l) == SetAll(s, l, -1)

\* Settings ids of the tabs that are open
OpenSettingsIds == {settings[strip[i].widget].id : i \in 1 .. Len(strip)}

Init ==
    /\ tabs = << >>
    /\ current_tab_id = 0
    /\ strip = << >>
    /\ currentIndex = -1
    /\ settings = << >>
    /\ persistent_tabs \in SavedLists
    /\ disk = Range(persistent_tabs)
    /\ err = "none"
    /\ mode = << >>
    /\ result = FALSE
    /\ width = DefaultWidth
    /\ new_tab_button_pos = [x |-> 0, y |-> 0]
    /\ button_moved = TRUE
    /\ allocated = << >>
    /\ last = "init"
    /\ arg = -1
    /\ original = << >>
    /\ to_load = << >>

\* The "+" button
NewTabClicked ==
    /\ current_tab_id < MaxTabs
    /\ Set(new_tab_clicked(S), "add_tab")

\* The main window loads a saved tab that is not open
LoadTab ==
    /\ current_tab_id < MaxTabs
    /\ \E id \in disk \ OpenSettingsIds :
         Set(load_tab(S, id), "load_tab")

\* tabCloseRequested(index); the tab agrees to close or vetoes
CloseTab ==
    \E index \in 0 .. Len(strip) - 1, agree \in Booleans :
      /\ (agree /\ Len(strip) = 1) => current_tab_id < MaxTabs
      /\ SetAll(close_tab(S, index, agree),
                IF ~agree THEN "close_tab_veto"
                ELSE IF Len(strip) = 1 THEN "close_tab_last" ELSE "close_tab",
                index)

\* The persistent checkbox of an open tab is clicked: the tab stores the
\* flag and emits change_persistent(tab_id, flag)
PersistentClicked ==
    \E i \in 1 .. Len(strip) :
      LET tab == strip[i].widget
          flag == ~settings[tab].persistent
      IN Set(change_persistent(Tab_set_persistent(S, tab, flag), tab, flag),
             IF flag THEN "change_persistent_on" ELSE "change_persistent_off")

\* A Tab object built earlier, open or closed, emits change_title
TitleChanged ==
    \E tab_id \in Range(allocated), title \in Titles :
      Set(change_title(S, tab_id, title), IF tab_id \in DOMAIN tabs THEN "change_title" ELSE "change_title_unknown")

\* A Tab object built earlier, open or closed, emits change_icon
IconChanged ==
    \E tab_id \in Range(allocated), icon \in Icons :
      Set(change_icon(S, tab_id, icon), IF tab_id \in DOMAIN tabs THEN "change_icon" ELSE "change_icon_unknown")

\* The user drags the tab at index from to index to
TabMoved ==
    \E from \in 0 .. Len(strip) - 1, to \in 0 .. Len(strip) - 1 :
      /\ from # to
      /\ Set(moveTab(S, from, to), "move")

\* Qt delivers a change event (activation, style, language, ...)
ChangeEvent ==
    Set(changeEvent(S),
        IF last \in {"changeEvent", "changeEvent_again"}
        THEN "changeEvent_again" ELSE "changeEvent")

\* The container gets another width
Resize ==
    \E w \in Widths \ {width} :
      Set(resizeEvent(S, w), "resize")

\* An open tab picks a mode, or the server of its mode changes status
ModeChanged ==
    \E i \in 1 .. Len(strip), m \in Statuses :
      /\ mode[strip[i].widget] # m
      /\ Set([S EXCEPT !.mode[strip[i].widget] = m], "mode")

\* The main window asks whether a server is running in a tab
AreTabsActive ==
    Set(are_tabs_active(S), "are_tabs_active")

Next ==
    \/ NewTabClicked
    \/ LoadTab
    \/ CloseTab
    \/ PersistentClicked
    \/ TitleChanged
    \/ IconChanged
    \/ TabMoved
    \/ ChangeEvent

Spec == Init /\ [][Next]_vars

\* Tabs with modes and servers, and the query about them
ActiveNext ==
    \/ NewTabClicked
    \/ LoadTab
    \/ CloseTab
    \/ TabMoved
    \/ ModeChanged
    \/ AreTabsActive

ActiveSpec == Init /\ [][ActiveNext]_vars

\* Startup: the stored list is loaded tab by tab, in its order
LoadInit ==
    /\ tabs = << >>
    /\ current_tab_id = 0
    /\ strip = << >>
    /\ currentIndex = -1
    /\ settings = << >>
    /\ persistent_tabs \in StartupLists
    /\ disk = Range(persistent_tabs)
    /\ err = "none"
    /\ mode = << >>
    /\ result = FALSE
    /\ width = DefaultWidth
    /\ new_tab_button_pos = [x |-> 0, y |-> 0]
    /\ button_moved = TRUE
    /\ allocated = << >>
    /\ last = "init"
    /\ arg = -1
    /\ original = persistent_tabs
    /\ to_load = persistent_tabs

LoadNextSaved ==
    /\ to_load # << >>
    /\ SetProgram(load_tab(S, Head(to_load)), "load_tab", -1)
    /\ to_load' = Tail(to_load)
    /\ original' = original

LoadSpec == LoadInit /\ [][LoadNextSaved]_vars

\* The tab strip changing its layout in a container that changes its width
GeomNext ==
    \/ NewTabClicked
    \/ LoadTab
    \/ CloseTab
    \/ TabMoved
    \/ TitleChanged
    \/ Resize

GeomSpec == Init /\ [][GeomNext]_vars

TypeOK ==
    /\ current_tab_id \in 0 .. MaxTabs
    /\ DOMAIN tabs \subseteq 0 .. MaxTabs
    /\ currentIndex \in -1 .. Len(strip) - 1
    /\ err \in {"none", "KeyError"}

----------------------------------------------------------------------------
(* Properties *)

StripWidgets == {strip[i].widget : i \in 1 .. Len(strip)}

\* What a close leaves unchanged when it removes nothing, and what a
\* notification or a save has no business changing
TabStateUnchanged ==
    /\ tabs' = tabs
    /\ strip' = strip
    /\ currentIndex' = currentIndex
    /\ current_tab_id' = current_tab_id
    /\ allocated' = allocated
    /\ settings' = settings
    /\ disk' = disk

\* C1: after every handler the registry and the strip hold the same tabs:
\* as many entries as pages, every page one tab, every tab under its own id.
RegistryMatchesStrip ==
    /\ Cardinality(DOMAIN tabs) = Len(strip)
    /\ Range(tabs) = StripWidgets
    /\ Cardinality(StripWidgets) = Len(strip)
    /\ \A k \in DOMAIN tabs : tabs[k] = k

\* C1 witness: a tab was closed while another stayed open
ClosedOneOfTwo == last = "close_tab" /\ Len(strip) = 1

\* C2: once a tab has been added there is always a tab; closing the only
\* tab leaves exactly one tab, with an id that was never given out before.
AlwaysOneTab ==
    /\ [](allocated # << >> => Len(strip) >= 1 /\ DOMAIN tabs # {})
    /\ [][last' = "close_tab_last" =>
            /\ Len(strip') = 1
            /\ DOMAIN tabs' = {strip'[1].widget}
            /\ strip'[1].widget \notin Range(allocated)
            /\ strip'[1].widget \notin StripWidgets]_vars

\* C2 witness: the only tab was closed and a new one stands in its place
ClosedTheOnlyTab ==
    last = "close_tab_last" /\ Len(strip) = 1 /\ Len(allocated) >= 2

\* The settings ids of the persistent tabs, in display order, is list
IsVisualOrderOfPersistent(list) ==
    LET pos == {i \in 1 .. Len(strip) : settings[strip[i].widget].persistent}
    IN /\ Len(list) = Cardinality(pos)
       /\ \E f \in [1 .. Len(list) -> pos] :
            /\ \A i, j \in 1 .. Len(list) : i < j => f[i] < f[j]
            /\ \A i \in 1 .. Len(list) : list[i] = settings[strip[f[i]].widget].id

\* C3: after add_tab, load_tab, a permitted close_tab and a drag of a tab
\* the stored persistent_tabs is the persistent tabs' settings ids in
\* display order.
SavedListFollowsStrip ==
    last \in {"add_tab", "load_tab", "close_tab", "close_tab_last", "move"}
      => IsVisualOrderOfPersistent(persistent_tabs)

\* C4: a vetoed close_tab leaves registry, strip, id counter and settings
\* files as they were.
VetoedCloseChangesNothing ==
    [][last' = "close_tab_veto" => TabStateUnchanged]_vars

\* C4 witness: a close was vetoed while a persistent tab had its file on disk
VetoedWithFileOnDisk ==
    /\ last = "close_tab_veto"
    /\ \E w \in StripWidgets : settings[w].persistent /\ settings[w].id \in disk

\* C5: a vetoed close_tab stores the list that was stored before it.
VetoedCloseKeepsSavedList ==
    [][last' = "close_tab_veto" => persistent_tabs' = persistent_tabs]_vars

\* C6: a permitted close_tab deletes the closed tab's settings file exactly
\* when the tab is persistent and no other file, a vetoed one deletes none,
\* and the closed tab's settings id is not in the stored list afterwards.
CloseDeletesOnlyPersistent ==
    [][/\ last' \in {"close_tab", "close_tab_last"} =>
            /\ Cardinality(StripWidgets \ {strip'[i].widget : i \in 1 .. Len(strip')}) = 1
            /\ \A w \in StripWidgets \ {strip'[i].widget : i \in 1 .. Len(strip')} :
                 /\ disk' = IF settings[w].persistent
                            THEN disk \ {settings[w].id} ELSE disk
                 /\ settings[w].id \notin Range(persistent_tabs')
       /\ last' = "close_tab_veto" => disk' = disk]_vars

\* C6 witness: a tab that was not persistent was closed and its file is
\* still on disk
ClosedKeepingFile ==
    /\ last \in {"close_tab", "close_tab_last"}
    /\ \E id \in disk \ SavedIds : \A w \in StripWidgets : settings[w].id # id

\* C7: every tab id handed out is greater than all handed out before it,
\* so none is handed out twice, and the registry holds only such ids.
TabIdsNeverReused ==
    /\ \A i, j \in 1 .. Len(allocated) : i < j => allocated[i] < allocated[j]
    /\ DOMAIN tabs \subseteq Range(allocated)
    /\ \A id \in Range(allocated) : id < current_tab_id

\* C7 witness: a tab was added after another was closed
AddedAfterClose ==
    /\ Len(allocated) >= 2
    /\ \E id \in Range(allocated) : id \notin DOMAIN tabs /\ id < allocated[Len(allocated)]

\* C8: change_persistent(tab_id, False) for a persistent tab saves a list
\* without the tab's settings id, change_persistent(tab_id, True) for a tab
\* that is not persistent saves a list with it.
PersistenceChangeIsSaved ==
    [][/\ last' = "change_persistent_off" =>
            \E t \in Range(tabs) :
              /\ settings[t].persistent /\ ~settings'[t].persistent
              /\ settings'[t].id \notin Range(persistent_tabs')
       /\ last' = "change_persistent_on" =>
            \E t \in Range(tabs) :
              /\ ~settings[t].persistent /\ settings'[t].persistent
              /\ settings'[t].id \in Range(persistent_tabs')]_vars

\* C8 witness: one of two persistent tabs was switched off
SwitchedOffOneOfTwo ==
    last = "change_persistent_off" /\ persistent_tabs # << >>

\* C9: a second save_persistent_tabs right after a first stores the same
\* list, and a save changes nothing but the stored list.
SaveIsIdempotent ==
    [][/\ last' = "changeEvent_again" => persistent_tabs' = persistent_tabs
       /\ last' \in {"changeEvent", "changeEvent_again"} => TabStateUnchanged]_vars

\* C9 witness: two saves in a row of a list that is not empty
SavedTwice == last = "changeEvent_again" /\ persistent_tabs # << >>

\* C10 as claimed: a title or icon notification for a tab id that is not in
\* the registry returns without an error and changes nothing.
UnknownTabIsNoOp ==
    [][last' \in {"change_title_unknown", "change_icon_unknown"} =>
          /\ err' = "none"
          /\ TabStateUnchanged
          /\ persistent_tabs' = persistent_tabs]_vars

\* C10: a title or icon notification for a tab id that is not in the
\* registry raises KeyError and changes no tab, label, icon or setting.
UnknownTabRaises ==
    [][last' \in {"change_title_unknown", "change_icon_unknown"} =>
          /\ err' = "KeyError"
          /\ TabStateUnchanged
          /\ persistent_tabs' = persistent_tabs]_vars

\* C10 witness: a closed tab sent a notification while another tab was open
ClosedTabNotified ==
    /\ last \in {"change_title_unknown", "change_icon_unknown"}
    /\ Len(strip) >= 1

\* C11: are_tabs_active returns true exactly when a tab of the registry has
\* a mode whose server status is not STATUS_STOPPED, and changes no state.
AreTabsActiveIsPureQuery ==
    [][last' = "are_tabs_active" =>
          /\ result' = (\E k \in DOMAIN tabs :
                          mode[tabs[k]] \in {STATUS_WORKING, STATUS_STARTED})
          /\ TabStateUnchanged
          /\ persistent_tabs' = persistent_tabs
          /\ mode' = mode
          /\ err' = "none"]_vars

\* C11 witness: the answer was true with an idle tab met before the active one
ActiveBehindIdle ==
    /\ last = "are_tabs_active"
    /\ result
    /\ \E j, k \in DOMAIN tabs :
         j < k /\ mode[tabs[j]] \in {"None", STATUS_STOPPED}
               /\ mode[tabs[k]] \in {STATUS_WORKING, STATUS_STARTED}

\* C12: add_tab adds one registry entry under the value the id counter had,
\* appends the new tab to the strip, leaves the other tabs and their order
\* as they were, shows the new tab, and has saved the order list on return.
AddTabAppendsAndSaves ==
    [][last' \in {"add_tab", "load_tab"} =>
          /\ current_tab_id \notin DOMAIN tabs
          /\ DOMAIN tabs' = DOMAIN tabs \cup {current_tab_id}
          /\ tabs'[current_tab_id] = current_tab_id
          /\ \A k \in DOMAIN tabs : tabs'[k] = tabs[k]
          /\ Len(strip') = Len(strip) + 1
          /\ \A i \in 1 .. Len(strip) : strip'[i] = strip[i]
          /\ strip'[Len(strip')].widget = current_tab_id
          /\ \A w \in StripWidgets : settings'[w] = settings[w]
          /\ currentIndex' = Len(strip') - 1
          /\ IsVisualOrderOfPersistent(persistent_tabs)']_vars

\* C12 witness: a persistent tab was added behind a tab that was open
AddedSecondTab ==
    /\ last \in {"add_tab", "load_tab"}
    /\ Len(strip) = 2
    /\ currentIndex = 1
    /\ persistent_tabs # << >>

\* C13: a permitted close_tab(index) takes out the page shown at index and
\* the registry entry of that page's tab; the other pages keep their order
\* and the other registry entries stay.
CloseRemovesTabAtIndex ==
    [][/\ last' = "close_tab" =>
            /\ arg' \in 0 .. Len(strip) - 1
            /\ Len(strip') = Len(strip) - 1
            /\ \A i \in 1 .. Len(strip') :
                 strip'[i] = IF i <= arg' THEN strip[i] ELSE strip[i + 1]
            /\ DOMAIN tabs' = DOMAIN tabs \ {strip[arg' + 1].widget}
            /\ \A k \in DOMAIN tabs' : tabs'[k] = tabs[k]
            /\ err' = "none"
       /\ last' = "close_tab_last" =>
            /\ arg' = 0
            /\ strip[1].widget \notin DOMAIN tabs'
            /\ \A i \in 1 .. Len(strip') : strip'[i].widget # strip[1].widget
            /\ err' = "none"]_vars

\* C13 witness: the tab made second was dragged to the front and closed there
ClosedDraggedTab ==
    /\ last = "close_tab"
    /\ arg = 0
    /\ Len(strip) = 1
    /\ strip[1].widget = 0
    /\ DOMAIN tabs = {0}

\* Where the button belongs for the strip and the width as they are
ButtonInPlace ==
    new_tab_button_pos.x =
      IF Len(strip) * TabWidth > width
      THEN width - ScrollButtonsOffset
      ELSE Len(strip) * TabWidth

\* C14: a resize and every layout change of the strip (tab added, removed,
\* dragged) has move_new_tab_button called before the handler is over, so
\* the button stands where the new layout puts it.
ButtonMovedOnLayoutChange ==
    last \in {"resize", "add_tab", "load_tab", "close_tab", "close_tab_last", "move"}
      => button_moved /\ ButtonInPlace

\* C14 witness: a tab was dragged while the tabs overflowed the container
DraggedWhileOverflowing ==
    last = "move" /\ button_moved /\ Len(strip) * TabWidth > width

\* C15: move_new_tab_button puts the button at width - 61 when the headers
\* together are wider than the container and right behind the last header
\* otherwise, also when they are exactly as wide; y and the tabs stay.
ButtonPositionRule ==
    /\ [](button_moved => ButtonInPlace)
    /\ [][last' = "resize" =>
            /\ ButtonInPlace'
            /\ new_tab_button_pos'.y = new_tab_button_pos.y
            /\ TabStateUnchanged
            /\ persistent_tabs' = persistent_tabs
            /\ mode' = mode]_vars

\* C15 witness: the container was resized to exactly the width of its tabs
ResizedToFit ==
    /\ last = "resize"
    /\ Len(strip) >= 1
    /\ Len(strip) * TabWidth = width
    /\ new_tab_button_pos.x = width

\* C16: loading the ids of a stored list one by one, in the list's order,
\* leaves the stored list a prefix of the original at every point (the ids
\* loaded so far) and equal to the original at the end.
ReloadRoundTrip ==
    /\ Len(persistent_tabs) <= Len(original)
    /\ persistent_tabs = SubSeq(original, 1, Len(persistent_tabs))
    /\ last = "load_tab" =>
         Len(persistent_tabs) = Len(original) - Len(to_load)
    /\ to_load = << >> => persistent_tabs = original

\* C16 witness: a list that is not in the order of its ids was loaded to
\* its end
ReloadedUnsortedList ==
    /\ to_load = << >>
    /\ last = "load_tab"
    /\ Len(original) >= 3
    /\ original[1] = <<"saved", "c">>
    /\ original[2] = <<"saved", "a">>
    /\ Len(strip) = Len(original)

====
